---- MODULE Spec2Model ----
(***************************************************************************)
(* A model of the orchestration core of sapcc/ironic_temper:               *)
(*   - the worker pool (Worker.Start), its dispatcher, the discovery loop  *)
(*     (Redfish.Start) and the error handler (ErrorHandler.initHandler);   *)
(*   - the poll-wrapped remote calls of pkg/clients/openstack.go           *)
(*     (wait.Poll with the condition functions of each call site);         *)
(*   - the nearest-fit flavor matcher (Client.getMatchingFlavorFor);       *)
(*   - the pipeline steps CreateDNSRecordFor, ApplyRules, ProvideNode,     *)
(*     PowerNodeOn, ValidateNode, WaitForNovaPropagation and               *)
(*     DeployTestInstance of pkg/clients/openstack.go.                     *)
(* Six specifications share the variables: Spec/FairSpec (the pool),       *)
(* PollSpec/PollFairSpec (one poll), MatchSpec (one flavor scan), TaskSpec *)
(* (one node's pipeline, step by step, against the remote), DeploySpec     *)
(* (one DeployTestInstance with its paged lookups) and ValidateSpec (one   *)
(* ValidateNode).                                                          *)
(***************************************************************************)
EXTENDS Integers, Sequences, FiniteSets, TLC

\* ------------------------------------------------------------------ bounds
NumWorkers == 2
NumNodes == 2
MaxTicks == 2
NumSteps == 3
QueueCap == 1

Workers == 1..NumWorkers
Nodes == 1..NumNodes
MaxJobs == NumNodes * MaxTicks
Jobs == 1..MaxJobs
Steps == 1..NumSteps

\* The node a job refers to: every discovery tick yields the nodes 1..NumNodes
\* again, in the same order (loadNodes re-reads the same file on every tick).
NodeOf(j) == ((j - 1) % NumNodes) + 1

VARIABLES
  \* ---- worker pool (Worker.Start) and dispatcher
  wpc,        \* [Workers -> position of the worker goroutine]
  Queue,      \* the availability queue: worker slots published and not yet taken
  curJob,     \* [Workers -> job being run, 0 if none]
  closed,     \* [Workers -> TRUE once the worker closed its JobChan]
  Quit,       \* the workers' quit signal
  served,     \* [Workers -> TRUE once the worker has received a job]
  dpc,        \* position of the dispatcher
  dJob,       \* the job the dispatcher holds (0 if none)
  dSlot,      \* the worker slot the dispatcher took (0 if none)
  pending,    \* jobs handed to the dispatcher and not yet taken by it
  panicked,   \* TRUE once a send on a closed channel crashed the process
  \* ---- discovery (Redfish.Start)
  discOn,     \* TRUE while the discovery loop runs
  ticks,      \* discovery rounds done
  \* ---- pipeline (Node.Temper)
  step,       \* [Workers -> step the worker's pipeline is at]
  runs,       \* [Jobs -> number of pipeline runs started for the job]
  lastStep,   \* [Jobs -> highest step executed]
  failedAt,   \* [Jobs -> the step that failed, 0 if none]
  InstanceUUID, \* [Jobs -> n.InstanceUUID of the job's node, "" if none]
  tornDown,   \* [Jobs -> TRUE once DeleteTestInstance returned no error]
  \* ---- error handler (ErrorHandler)
  hpc,        \* position of the handler goroutine
  ctxDone,    \* TRUE once the context is cancelled
  received,   \* [Jobs -> number of times the job's failure was received]
  deletes,    \* [Jobs -> teardowns the handler issued for the job's node]
  \* ---- one poll-wrapped remote call (wait.Poll at a call site)
  site,       \* the call site whose condition is polled
  pstate,     \* "polling" or "done"
  elapsed,    \* seconds since the poll began
  pcalls,     \* invocations of the condition so far
  lastAns,    \* the remote's answer at the latest invocation ("none" before)
  lastCheck,  \* TRUE once the check made when the timeout fires has run
  nConflict,  \* invocations so far at which the remote answered 409
  presult,    \* what wait.Poll returned ("none" while polling)
  \* ---- one scan of the flavor matcher (Client.getMatchingFlavorFor)
  measured,   \* the node's inventory: [ram, disk, cpu]
  listing,    \* the flavors the compute API lists, in order
  pageSize,   \* flavors per page of the listing
  ResourceClass, \* n.ResourceClass
  name,       \* the result under construction
  ram, disk, cpu, \* the running thresholds, as fractions <<num, den>>
  pageNo,     \* pages handed to the page handler so far
  idx,        \* position in the listing of the flavor the loop is at
  mstate,     \* "list" (between pages), "scan" (in the handler), "done"
  merr,       \* TRUE when the scan returned an error
  accepted,   \* positions of the flavors that passed all three checks
  \* ---- one node's pipeline, step by step, and the remote services it talks to
  enabled,    \* the steps enabled for the node
  run,        \* the pipeline run under way (the node is yielded again each round)
  tpc,        \* position of the pipeline
  result,     \* [TaskSteps -> what the step returned in this run, "none" before]
  reported,   \* failures handed to the handler so far
  dnsAns,     \* the DNS API's answer in this run ("none" before)
  records,    \* records of the node's name the DNS zone holds
  rendered,   \* how getRules went in this run ("none" before)
  res,        \* the resource ApplyRules is patching: ports 1..NumPorts, then the node
  patchResult, \* [Resources -> what the patch's poll returned in this run]
  patched,    \* the resources whose patch the remote has accepted in this run
  provResult, \* [ProvPolls -> what the poll returned in this run]
  power,      \* the power state this run's poll read last ("off" before)
  powerAns,   \* the remote's answer to this run's power-on request ("none" before)
  observed,   \* [ReadPolls -> the answer the poll's last invocation read, "none" before]
  clean,      \* TRUE while every call of this run was accepted on the first try
  \* ---- one call of DeployTestInstance, with its two paged lookups
  images,     \* the image listing: the names of its entries, in order
  services,   \* the service listing: the hosts of its entries, in order
  lookupSize, \* entries per page of both listings
  deployPc,   \* position of DeployTestInstance
  lpage,      \* pages the lookup under way has handed to its handler
  iID,        \* the image id found: the entry's position, 0 for ""
  zID,        \* the zone found: the entry's position, 0 for ""
  imagePages, \* pages getImageID handed to its handler
  zonePages,  \* pages getConductorZone handed to its handler
  imageErr,   \* what getImageID returned as error ("none" before it returns)
  zoneErr,    \* what getConductorZone returned as error ("none" before it returns)
  derr,       \* the variable err of DeployTestInstance ("none" before it is set)
  createOpts, \* the creation requests sent, as <<ImageRef, zone>>
  \* ---- one call of ValidateNode
  validation, \* [sub-result -> [Result, Reason]]: what the validate API holds
  vans,       \* how the validate call went: "ok" or "error" ("none" before)
  vpc,        \* position of ValidateNode
  verr        \* the error ValidateNode returned: [isErr, msg]

poolVars == <<wpc, Queue, curJob, closed, Quit, served, dpc, dJob, dSlot, pending,
              panicked, discOn, ticks, step, runs, lastStep, failedAt, hpc, ctxDone,
              received, InstanceUUID, tornDown, deletes>>

pollVars == <<site, pstate, elapsed, pcalls, lastAns, lastCheck, nConflict, presult>>

matchVars == <<measured, listing, pageSize, ResourceClass, name, ram, disk, cpu,
               pageNo, idx, mstate, merr, accepted>>

\* The workload fields of the nodes and what the handler did about them.
nodeVars == <<InstanceUUID, tornDown, deletes>>

taskVars == <<enabled, run, tpc, result, reported, dnsAns, records, rendered, res, patchResult,
              patched, provResult, power, powerAns, observed, clean>>

deployVars == <<images, services, lookupSize, deployPc, lpage, iID, zID, imagePages,
                zonePages, imageErr, zoneErr, derr, createOpts>>

validateVars == <<validation, vans, vpc, verr>>

callVars == <<deployVars, validateVars>>

vars == <<poolVars, pollVars, matchVars, taskVars, callVars>>

\* ================================================================== pool

PoolInit ==
  /\ wpc = [w \in Workers |-> "announce"]
  /\ Queue = <<>>
  /\ curJob = [w \in Workers |-> 0]
  /\ closed = [w \in Workers |-> FALSE]
  /\ Quit = FALSE
  /\ served = [w \in Workers |-> FALSE]
  /\ dpc = "idle"
  /\ dJob = 0
  /\ dSlot = 0
  /\ pending = <<>>
  /\ panicked = FALSE
  /\ discOn = TRUE
  /\ ticks = 0
  /\ step = [w \in Workers |-> 0]
  /\ runs = [j \in Jobs |-> 0]
  /\ lastStep = [j \in Jobs |-> 0]
  /\ failedAt = [j \in Jobs |-> 0]
  /\ hpc = "select"
  /\ ctxDone = FALSE
  /\ received = [j \in Jobs |-> 0]
  /\ InstanceUUID = [j \in Jobs |-> ""]
  /\ tornDown = [j \in Jobs |-> FALSE]
  /\ deletes = [j \in Jobs |-> 0]

\* No poll is under way (the pool's specification does not look into a step).
PollIdle ==
  /\ site = "none"
  /\ pstate = "done"
  /\ elapsed = 0
  /\ pcalls = 0
  /\ lastAns = "none"
  /\ lastCheck = FALSE
  /\ nConflict = 0
  /\ presult = "none"

\* No flavor scan is under way.
MatchIdle ==
  /\ measured = [ram |-> 0, disk |-> 0, cpu |-> 0]
  /\ listing = <<>>
  /\ pageSize = 1
  /\ ResourceClass = ""
  /\ name = ""
  /\ ram = <<0, 1>>
  /\ disk = <<0, 1>>
  /\ cpu = <<0, 1>>
  /\ pageNo = 0
  /\ idx = 0
  /\ mstate = "done"
  /\ merr = FALSE
  /\ accepted = {}

\* ---- the pipeline of one node
NumPorts == 2
MaxRuns == 2

\* Node.Temper: the steps modelled, in the pipeline's fixed order.
TaskOrder == <<"dns", "rules", "provision", "power", "nova">>
TaskSteps == {TaskOrder[i] : i \in DOMAIN TaskOrder}

\* What ApplyRules patches: the node's ports, then the node resource.
NodeRes == NumPorts + 1
Resources == 1..NodeRes

\* The three polls of ProvideNode, named by their call site.
ProvPolls == {"manage", "provide", "provisionState"}

\* The polls that read the remote's state until it has converged: the last poll
\* of ProvideNode, the poll of PowerNodeOn and that of WaitForNovaPropagation.
ReadPolls == {"provisionState", "powerState", "novaPropagation"}

\* No pipeline is being followed step by step.
TaskIdle ==
  /\ enabled = {}
  /\ run = 1
  /\ tpc = "end"
  /\ result = [s \in TaskSteps |-> "none"]
  /\ reported = 0
  /\ dnsAns = "none"
  /\ records = 0
  /\ rendered = "none"
  /\ res = 1
  /\ patchResult = [r \in Resources |-> "none"]
  /\ patched = {}
  /\ provResult = [q \in ProvPolls |-> "none"]
  /\ power = "off"
  /\ powerAns = "none"
  /\ observed = [q \in ReadPolls |-> "none"]
  /\ clean = TRUE

\* ---- the calls of DeployTestInstance and ValidateNode
MaxEntries == 3

\* The name asked for (cfg.Deployment.Image, cfg.Deployment.ConductorZone) and
\* another name the listings hold.
Wanted == "wanted"
EntryNames == {Wanted, "other"}

\* nodes.NodeValidation: the four sub-results, in the order of the checks.
SubResults == <<"Inspect", "Power", "Management", "Network">>

SubResultNames == { SubResults[i] : i \in DOMAIN SubResults }

\* A nil error.
NilErr == [isErr |-> FALSE, msg |-> <<>>]

\* No DeployTestInstance is under way.
DeployIdle ==
  /\ images = <<>>
  /\ services = <<>>
  /\ lookupSize = 1
  /\ deployPc = "returned"
  /\ lpage = 0
  /\ iID = 0
  /\ zID = 0
  /\ imagePages = 0
  /\ zonePages = 0
  /\ imageErr = "none"
  /\ zoneErr = "none"
  /\ derr = "none"
  /\ createOpts = <<>>

\* No ValidateNode is under way.
ValidateIdle ==
  /\ validation = [k \in SubResultNames |-> [Result |-> TRUE, Reason |-> <<>>]]
  /\ vans = "none"
  /\ vpc = "returned"
  /\ verr = NilErr

CallIdle == DeployIdle /\ ValidateIdle

\* Redfish.Start, one round of the loop: every node of the file is handed on,
\* whether or not an earlier round's job for it is still in flight.
DiscoveryTick ==
  /\ ~panicked
  /\ discOn
  /\ ticks < MaxTicks
  /\ ticks' = ticks + 1
  /\ pending' = pending \o [i \in 1..NumNodes |-> ticks * NumNodes + i]
  /\ UNCHANGED <<wpc, Queue, curJob, closed, Quit, served, dpc, dJob, dSlot,
                 panicked, discOn, step, runs, lastStep, failedAt, hpc, ctxDone,
                 received,
                 nodeVars, pollVars, matchVars, taskVars, callVars>>

\* Redfish.Start, case <-ctx.Done(): break loop
DiscoveryStop ==
  /\ ~panicked
  /\ discOn
  /\ ctxDone
  /\ discOn' = FALSE
  /\ UNCHANGED <<wpc, Queue, curJob, closed, Quit, served, dpc, dJob, dSlot, pending,
                 panicked, ticks, step, runs, lastStep, failedAt, hpc, ctxDone,
                 received,
                 nodeVars, pollVars, matchVars, taskVars, callVars>>

\* The dispatcher takes the next pending job (no intake after cancellation).
DispatcherTakeJob ==
  /\ ~panicked
  /\ dpc = "idle"
  /\ ~ctxDone
  /\ pending # <<>>
  /\ dJob' = Head(pending)
  /\ pending' = Tail(pending)
  /\ dpc' = "takeSlot"
  /\ UNCHANGED <<wpc, Queue, curJob, closed, Quit, served, dSlot, panicked, discOn,
                 ticks, step, runs, lastStep, failedAt, hpc, ctxDone, received,
                 nodeVars, pollVars, matchVars, taskVars, callVars>>

\* The dispatcher takes the next available worker slot from the queue.
DispatcherTakeSlot ==
  /\ ~panicked
  /\ dpc = "takeSlot"
  /\ Queue # <<>>
  /\ dSlot' = Head(Queue)
  /\ Queue' = Tail(Queue)
  /\ dpc' = "send"
  /\ UNCHANGED <<wpc, curJob, closed, Quit, served, dJob, pending, panicked, discOn,
                 ticks, step, runs, lastStep, failedAt, hpc, ctxDone, received,
                 nodeVars, pollVars, matchVars, taskVars, callVars>>

\* The dispatcher sends the job on a slot its worker has closed: Go panics.
DispatcherSendClosed ==
  /\ ~panicked
  /\ dpc = "send"
  /\ closed[dSlot]
  /\ panicked' = TRUE
  /\ UNCHANGED <<wpc, Queue, curJob, closed, Quit, served, dpc, dJob, dSlot, pending,
                 discOn, ticks, step, runs, lastStep, failedAt, hpc, ctxDone,
                 received,
                 nodeVars, pollVars, matchVars, taskVars, callVars>>

\* Worker.Start: w.Queue <- w.JobChan. The send completes when the queue has
\* room, or when the dispatcher is blocked receiving from the empty queue.
WorkerAnnounce(w) ==
  /\ ~panicked
  /\ wpc[w] = "announce"
  /\ \/ /\ Len(Queue) < QueueCap
        /\ Queue' = Append(Queue, w)
        /\ UNCHANGED <<dpc, dSlot>>
     \/ /\ Queue = <<>>
        /\ dpc = "takeSlot"
        /\ dSlot' = w
        /\ dpc' = "send"
        /\ UNCHANGED Queue
  /\ wpc' = [wpc EXCEPT ![w] = "select"]
  /\ UNCHANGED <<curJob, closed, Quit, served, dJob, pending, panicked, discOn,
                 ticks, step, runs, lastStep, failedAt, hpc, ctxDone, received,
                 nodeVars, pollVars, matchVars, taskVars, callVars>>

\* Worker.Start: case job := <-w.JobChan, up to the call of job.Temper.
WorkerReceiveJob(w) ==
  /\ ~panicked
  /\ wpc[w] = "select"
  /\ dpc = "send"
  /\ dSlot = w
  /\ ~closed[w]
  /\ wpc' = [wpc EXCEPT ![w] = "run"]
  /\ curJob' = [curJob EXCEPT ![w] = dJob]
  /\ served' = [served EXCEPT ![w] = TRUE]
  /\ step' = [step EXCEPT ![w] = 1]
  /\ runs' = [runs EXCEPT ![dJob] = @ + 1]
  /\ dpc' = "idle"
  /\ dJob' = 0
  /\ dSlot' = 0
  /\ UNCHANGED <<Queue, closed, Quit, pending, panicked, discOn, ticks, lastStep,
                 failedAt, hpc, ctxDone, received,
                 nodeVars, pollVars, matchVars, taskVars, callVars>>

\* Worker.Start: case <-w.Quit: close(w.JobChan); return
WorkerQuit(w) ==
  /\ ~panicked
  /\ wpc[w] = "select"
  /\ Quit
  /\ closed' = [closed EXCEPT ![w] = TRUE]
  /\ wpc' = [wpc EXCEPT ![w] = "exited"]
  /\ UNCHANGED <<Queue, curJob, Quit, served, dpc, dJob, dSlot, pending, panicked,
                 discOn, ticks, step, runs, lastStep, failedAt, hpc, ctxDone,
                 received,
                 nodeVars, pollVars, matchVars, taskVars, callVars>>

\* The steps of the pipeline the workers run: the test workload is deployed,
\* then torn down; the steps after that (Prepared) do not touch the workload.
StepKind(s) == IF s = 1 THEN "deploy" ELSE IF s = 2 THEN "teardown" ELSE "later"

\* How a step can end. DeployTestInstance fails before the workload exists
\* (lookup or creation error), or after it was created (wait for ACTIVE, ping).
StepOutcomes(kind) ==
  IF kind = "deploy" THEN {"notCreated", "createdThenFailed", "ok"}
  ELSE {"failed", "ok"}

\* Client.DeployTestInstance, the node's InstanceUUID when the step returns:
\* n.InstanceUUID = s.ID as soon as servers.Create has returned the server.
DeployTestInstance(uuid, out) == IF out = "notCreated" THEN uuid ELSE "inst"

\* Client.DeleteTestInstance, the node's InstanceUUID when the step returns:
\* ForceDelete and WaitForStatus read n.InstanceUUID, nothing assigns it.
DeleteTestInstance(uuid, out) == uuid

\* job.Temper: the pipeline runs its next step; the step succeeds or fails.
\* A failure halts the pipeline and is to be sent on the handler's channel;
\* after the last step Temper returns and the worker loops.
TemperStep(w) ==
  /\ ~panicked
  /\ wpc[w] = "run"
  /\ lastStep' = [lastStep EXCEPT ![curJob[w]] = step[w]]
  /\ \E out \in StepOutcomes(StepKind(step[w])) :
       /\ InstanceUUID' =
            [InstanceUUID EXCEPT ![curJob[w]] =
               CASE StepKind(step[w]) = "deploy" -> DeployTestInstance(@, out)
                 [] StepKind(step[w]) = "teardown" -> DeleteTestInstance(@, out)
                 [] OTHER -> @]
       /\ tornDown' =
            [tornDown EXCEPT ![curJob[w]] =
               @ \/ (StepKind(step[w]) = "teardown" /\ out = "ok")]
       /\ IF out = "ok"
          THEN /\ failedAt' = failedAt
               /\ IF step[w] = NumSteps
                  THEN /\ wpc' = [wpc EXCEPT ![w] = "announce"]
                       /\ curJob' = [curJob EXCEPT ![w] = 0]
                       /\ step' = [step EXCEPT ![w] = 0]
                  ELSE /\ step' = [step EXCEPT ![w] = @ + 1]
                       /\ UNCHANGED <<wpc, curJob>>
          ELSE /\ failedAt' = [failedAt EXCEPT ![curJob[w]] = step[w]]
               /\ wpc' = [wpc EXCEPT ![w] = "forward"]
               /\ UNCHANGED <<curJob, step>>
  /\ UNCHANGED <<Queue, closed, Quit, served, dpc, dJob, dSlot, pending, panicked,
                 discOn, ticks, runs, hpc, ctxDone, received, deletes,
                 pollVars, matchVars, taskVars, callVars>>

\* ErrorHandler.initHandler: case err := <-e.Errors. The channel is unbuffered
\* (make(chan error, 0)), so the worker's send and the handler's receive are
\* one step. A node with a non-empty InstanceUUID gets its test deployment
\* deleted. After the case the goroutine's function ends: there is no loop.
HandlerReceive(w) ==
  /\ ~panicked
  /\ hpc = "select"
  /\ wpc[w] = "forward"
  /\ received' = [received EXCEPT ![curJob[w]] = @ + 1]
  /\ deletes' = IF InstanceUUID[curJob[w]] # ""
                THEN [deletes EXCEPT ![curJob[w]] = @ + 1]
                ELSE deletes
  /\ hpc' = "exited"
  /\ wpc' = [wpc EXCEPT ![w] = "announce"]
  /\ curJob' = [curJob EXCEPT ![w] = 0]
  /\ step' = [step EXCEPT ![w] = 0]
  /\ UNCHANGED <<Queue, closed, Quit, served, dpc, dJob, dSlot, pending, panicked,
                 discOn, ticks, runs, lastStep, failedAt, ctxDone, InstanceUUID,
                 tornDown,
                 pollVars, matchVars, taskVars, callVars>>

\* ErrorHandler.initHandler: case <-e.ctx.Done(): return
HandlerCancel ==
  /\ ~panicked
  /\ hpc = "select"
  /\ ctxDone
  /\ hpc' = "exited"
  /\ UNCHANGED <<wpc, Queue, curJob, closed, Quit, served, dpc, dJob, dSlot, pending,
                 panicked, discOn, ticks, step, runs, lastStep, failedAt, ctxDone,
                 received,
                 nodeVars, pollVars, matchVars, taskVars, callVars>>

\* The process-wide cancellation: the context is cancelled and Quit is raised.
Shutdown ==
  /\ ~panicked
  /\ ~ctxDone
  /\ ctxDone' = TRUE
  /\ Quit' = TRUE
  /\ UNCHANGED <<wpc, Queue, curJob, closed, served, dpc, dJob, dSlot, pending,
                 panicked, discOn, ticks, step, runs, lastStep, failedAt, hpc,
                 received,
                 nodeVars, pollVars, matchVars, taskVars, callVars>>

Init == PoolInit /\ PollIdle /\ MatchIdle /\ TaskIdle /\ CallIdle

Next ==
  \/ DiscoveryTick
  \/ DiscoveryStop
  \/ DispatcherTakeJob
  \/ DispatcherTakeSlot
  \/ DispatcherSendClosed
  \/ \E w \in Workers : WorkerAnnounce(w)
  \/ \E w \in Workers : WorkerReceiveJob(w)
  \/ \E w \in Workers : WorkerQuit(w)
  \/ \E w \in Workers : TemperStep(w)
  \/ \E w \in Workers : HandlerReceive(w)
  \/ HandlerCancel
  \/ Shutdown

Spec == Init /\ [][Next]_vars

\* Go's scheduler runs every goroutine that can take a step: the dispatcher,
\* each worker, each pipeline and the handler. Discovery rounds and the
\* shutdown are events of the environment and carry no fairness.
FairSpec ==
  /\ Init
  /\ [][Next]_vars
  /\ WF_vars(DispatcherTakeJob)
  /\ WF_vars(DispatcherTakeSlot)
  /\ WF_vars(DispatcherSendClosed)
  /\ WF_vars(HandlerCancel)
  /\ \A w \in Workers :
       /\ WF_vars(WorkerAnnounce(w))
       /\ WF_vars(WorkerReceiveJob(w))
       /\ WF_vars(WorkerQuit(w))
       /\ WF_vars(TemperStep(w))
       /\ WF_vars(HandlerReceive(w))

\* ================================================================== poll

\* wait.Poll(interval, timeout, condition) at the call sites, in seconds.
PortsInterval == 5
PortsTimeout == 60
NodeInterval == 5
NodeTimeout == 60
ProvisionInterval == 5
ProvisionTimeout == 30
PowerInterval == 5
PowerTimeout == 30
NovaInterval == 10
NovaTimeout == 600

Sites == {"updatePorts", "updateNode", "manage", "provide", "provisionState",
          "powerState", "novaPropagation"}

Interval(s) ==
  CASE s = "updatePorts" -> PortsInterval
    [] s = "updateNode" -> NodeInterval
    [] s \in {"manage", "provide", "provisionState"} -> ProvisionInterval
    [] s = "powerState" -> PowerInterval
    [] s = "novaPropagation" -> NovaInterval

Timeout(s) ==
  CASE s = "updatePorts" -> PortsTimeout
    [] s = "updateNode" -> NodeTimeout
    [] s \in {"manage", "provide", "provisionState"} -> ProvisionTimeout
    [] s = "powerState" -> PowerTimeout
    [] s = "novaPropagation" -> NovaTimeout

\* What the remote can answer to the call a condition makes. An update or a
\* state change is accepted ("ok"), refused with 409 ("conflict"), with 404
\* ("notfound") or with any other error ("error"). A read fails ("error") or
\* returns the state read.
Answers(s) ==
  CASE s \in {"updatePorts", "updateNode", "manage", "provide"} ->
         {"ok", "conflict", "notfound", "error"}
    [] s = "provisionState" -> {"error", "manageable", "available"}
    [] s = "powerState" -> {"error", "off", "on"}
    [] s = "novaPropagation" -> {"error", "absent", "nodisk", "nomemory", "ready"}

\* A condition's return value (bool, error); err is "nil" or the error's kind.
Ret(settled, err) == [settled |-> settled, err |-> err]

\* Mutant of updatePortsCond: a 409 is returned like any other error.
updatePortsCondConflictFatal(ans) ==
  IF ans # "ok" THEN Ret(TRUE, ans) ELSE Ret(TRUE, "nil")

\* Client.updatePorts, the condition: 409 -> (false, nil); other error ->
\* (true, err); no error -> (true, nil).
updatePortsCond(ans) ==
  IF ans # "ok"
  THEN IF ans = "conflict" THEN Ret(FALSE, "nil") ELSE Ret(TRUE, ans)
  ELSE Ret(TRUE, "nil")

\* Client.updateNode, the condition: any error -> (false, nil); else (true, nil).
updateNodeCond(ans) ==
  IF ans # "ok" THEN Ret(FALSE, "nil") ELSE Ret(TRUE, "nil")

\* Client.ProvideNode, cf(tp): 409 -> (false, nil); other error -> (true, err);
\* no error -> (true, nil).
changeProvisionStateCond(ans) ==
  IF ans # "ok"
  THEN IF ans = "conflict" THEN Ret(FALSE, "nil") ELSE Ret(TRUE, ans)
  ELSE Ret(TRUE, "nil")

\* Client.ProvideNode, cfp: read error -> (true, err); state not "available" ->
\* (false, nil); else (true, nil).
provisionStateCond(ans) ==
  IF ans = "error" THEN Ret(TRUE, "error")
  ELSE IF ans # "available" THEN Ret(FALSE, "nil") ELSE Ret(TRUE, "nil")

\* Mutant of powerStateCond: the comparison with "power on" is inverted.
powerStateCondInverted(ans) ==
  IF ans = "error" THEN Ret(FALSE, "error")
  ELSE IF ans = "on" THEN Ret(FALSE, "nil") ELSE Ret(TRUE, "nil")

\* Client.PowerNodeOn, cf: read error -> (false, err); power state not "power
\* on" -> (false, nil); else (true, nil).
powerStateCond(ans) ==
  IF ans = "error" THEN Ret(FALSE, "error")
  ELSE IF ans # "on" THEN Ret(FALSE, "nil") ELSE Ret(TRUE, "nil")

\* Mutant of novaPropagationCond: the capacity numbers are not looked at.
novaPropagationCondAnyCapacity(ans) ==
  IF ans = "error" THEN Ret(TRUE, "error")
  ELSE IF ans # "absent" THEN Ret(TRUE, "nil") ELSE Ret(FALSE, "nil")

\* Client.WaitForNovaPropagation, cfp: list error -> (true, err); the node's
\* hypervisor is listed with LocalGB > 0 and MemoryMB > 0 -> (true, nil); else
\* (false, nil).
novaPropagationCond(ans) ==
  IF ans = "error" THEN Ret(TRUE, "error")
  ELSE IF ans = "ready" THEN Ret(TRUE, "nil") ELSE Ret(FALSE, "nil")

Cond(s, ans) ==
  CASE s = "updatePorts" -> updatePortsCond(ans)
    [] s = "updateNode" -> updateNodeCond(ans)
    [] s \in {"manage", "provide"} -> changeProvisionStateCond(ans)
    [] s = "provisionState" -> provisionStateCond(ans)
    [] s = "powerState" -> powerStateCond(ans)
    [] s = "novaPropagation" -> novaPropagationCond(ans)

\* wait.Poll's handling of one invocation of the condition: a non-nil error
\* ends the poll with that error, settled ends it with success, otherwise the
\* poll goes on, or ends with the timeout error when `last` (the timeout fired).
Invoke(ans, last) ==
  LET r == Cond(site, ans) IN
  /\ pcalls' = pcalls + 1
  /\ lastAns' = ans
  /\ nConflict' = IF ans = "conflict" THEN nConflict + 1 ELSE nConflict
  /\ IF r.err # "nil"
     THEN pstate' = "done" /\ presult' = r.err
     ELSE IF r.settled
          THEN pstate' = "done" /\ presult' = "success"
          ELSE IF last
               THEN pstate' = "done" /\ presult' = "timeout"
               ELSE pstate' = "polling" /\ presult' = "none"

\* wait.Poll: the interval passes within the timeout; the condition is invoked.
PollTick ==
  /\ pstate = "polling"
  /\ elapsed + Interval(site) <= Timeout(site)
  /\ elapsed' = elapsed + Interval(site)
  /\ \E ans \in Answers(site) : Invoke(ans, FALSE)
  /\ UNCHANGED <<site, lastCheck>>
  /\ UNCHANGED <<callVars, poolVars, matchVars, taskVars>>

\* wait.Poll: the timeout fires; the condition is checked one last time.
PollLastCheck ==
  /\ pstate = "polling"
  /\ elapsed + Interval(site) > Timeout(site)
  /\ lastCheck' = TRUE
  /\ \E ans \in Answers(site) : Invoke(ans, TRUE)
  /\ UNCHANGED <<site, elapsed>>
  /\ UNCHANGED <<callVars, poolVars, matchVars, taskVars>>

\* wait.Poll: the timeout fires and the poll ends with the timeout error.
PollTimeout ==
  /\ pstate = "polling"
  /\ elapsed + Interval(site) > Timeout(site)
  /\ pstate' = "done"
  /\ presult' = "timeout"
  /\ UNCHANGED <<site, elapsed, pcalls, lastAns, lastCheck, nConflict>>
  /\ UNCHANGED <<callVars, poolVars, matchVars, taskVars>>

PollInit ==
  /\ PoolInit
  /\ MatchIdle
  /\ TaskIdle
  /\ CallIdle
  /\ site \in Sites
  /\ pstate = "polling"
  /\ elapsed = 0
  /\ pcalls = 0
  /\ lastAns = "none"
  /\ lastCheck = FALSE
  /\ nConflict = 0
  /\ presult = "none"

PollNext ==
  \/ PollTick
  \/ PollLastCheck
  \/ PollTimeout

PollSpec == PollInit /\ [][PollNext]_vars

\* The polling goroutine is scheduled and its timers fire.
PollFairSpec == PollSpec /\ WF_vars(PollNext)

\* ================================================================== matcher

MaxFlavors == 3

\* Measured inventories and flavors the scans are run on. RAM in MB, disk in
\* GB, logical CPUs. All capacities are positive.
Inventories ==
  { [ram |-> 64000, disk |-> 500, cpu |-> 16],
    [ram |-> 64500, disk |-> 510, cpu |-> 16] }

Flavor(n, r, d, c) == [name |-> n, ram |-> r, disk |-> d, cpu |-> c]

Catalog ==
  { Flavor("A", 65000, 520, 16),
    Flavor("B", 64500, 510, 16),
    Flavor("T", 64500, 510, 16),
    Flavor("D", 64000, 800, 16),
    Flavor("E", 72000, 500, 16),
    Flavor("F", 64000, 500, 32) }

\* The inventory and the ordered candidates of the specification's example.
ExampleInventory == [ram |-> 64000, disk |-> 500, cpu |-> 16]
ExampleCandidates == << Flavor("A", 65000, 520, 16), Flavor("B", 64500, 510, 16) >>

Abs(x) == IF x < 0 THEN -x ELSE x
Min(a, b) == IF a < b THEN a ELSE b

\* calcDelta(candidate, measured) = |candidate - measured| / candidate, kept as
\* the fraction <<num, den>> with den > 0. The code computes it in float64;
\* for the capacities used here two fractions compare in float64 exactly as
\* they do as rationals (their difference is far above the rounding error).
calcDelta(a, b) == <<Abs(a - b), a>>

\* Mutant of Greater: the candidate is rejected on equality too.
GreaterOrEqual(d, t) == d[1] * t[2] >= t[1] * d[2]

\* getMatchingFlavorFor: `delta > ram`, `delta > disk`, `delta > cpu`.
Greater(d, t) == d[1] * t[2] > t[1] * d[2]

\* getMatchingFlavorFor: ram := 0.1, disk := 0.2, cpu := 0.1
RamThreshold == <<1, 10>>
DiskThreshold == <<2, 10>>
CpuThreshold == <<1, 10>>

\* getMatchingFlavorFor: the page handler's `return false, nil`; EachPage asks
\* for the next page only when the handler returns true.
flavorsPageContinue == FALSE

\* The last position of the page the handler is working on.
PageEnd == Min(pageNo * pageSize, Len(listing))

\* flavors.ListDetail(...).EachPage: the next page is fetched and handed to the
\* handler, which first extracts the flavors (an error ends the scan with that
\* error) and sets the thresholds; no further page ends the scan.
MatchEachPage ==
  /\ mstate = "list"
  /\ IF pageNo * pageSize >= Len(listing)
     THEN /\ mstate' = "done"
          /\ UNCHANGED <<ram, disk, cpu, pageNo, idx, merr>>
     ELSE \E extracted \in BOOLEAN :
            IF extracted
            THEN /\ pageNo' = pageNo + 1
                 /\ idx' = pageNo * pageSize + 1
                 /\ ram' = RamThreshold
                 /\ disk' = DiskThreshold
                 /\ cpu' = CpuThreshold
                 /\ mstate' = "scan"
                 /\ UNCHANGED merr
            ELSE /\ mstate' = "done"
                 /\ merr' = TRUE
                 /\ UNCHANGED <<ram, disk, cpu, pageNo, idx>>
  /\ UNCHANGED <<measured, listing, pageSize, ResourceClass, name, accepted>>
  /\ UNCHANGED <<callVars, poolVars, pollVars, taskVars>>

\* getMatchingFlavorFor: one iteration of `for _, f := range fs`.
MatchFlavor ==
  /\ mstate = "scan"
  /\ idx <= PageEnd
  /\ LET f == listing[idx]
         dr == calcDelta(f.ram, measured.ram)
         dd == calcDelta(f.disk, measured.disk)
         dc == calcDelta(f.cpu, measured.cpu)
     IN IF Greater(dr, ram)
        THEN UNCHANGED <<ram, disk, cpu, name, ResourceClass, accepted>>
        ELSE /\ ram' = dr
             /\ IF Greater(dd, disk)
                THEN UNCHANGED <<disk, cpu, name, ResourceClass, accepted>>
                ELSE /\ disk' = dd
                     /\ IF Greater(dc, cpu)
                        THEN UNCHANGED <<cpu, name, ResourceClass, accepted>>
                        ELSE /\ cpu' = dc
                             /\ name' = f.name
                             /\ ResourceClass' = f.name
                             /\ accepted' = accepted \cup {idx}
  /\ idx' = idx + 1
  /\ UNCHANGED <<measured, listing, pageSize, pageNo, mstate, merr>>
  /\ UNCHANGED <<callVars, poolVars, pollVars, taskVars>>

\* getMatchingFlavorFor: the handler returns; EachPage goes on or stops.
MatchPageEnd ==
  /\ mstate = "scan"
  /\ idx > PageEnd
  /\ mstate' = IF flavorsPageContinue THEN "list" ELSE "done"
  /\ UNCHANGED <<measured, listing, pageSize, ResourceClass, name, ram, disk, cpu,
                 pageNo, idx, merr, accepted>>
  /\ UNCHANGED <<callVars, poolVars, pollVars, taskVars>>

Listings == UNION { [1..n -> Catalog] : n \in 0..MaxFlavors }

MatchInit ==
  /\ PoolInit
  /\ PollIdle
  /\ TaskIdle
  /\ CallIdle
  /\ measured \in Inventories
  /\ listing \in Listings
  /\ pageSize \in 1..MaxFlavors
  /\ ResourceClass \in {"", "prior"}
  /\ name = ""
  /\ ram = <<0, 1>>
  /\ disk = <<0, 1>>
  /\ cpu = <<0, 1>>
  /\ pageNo = 0
  /\ idx = 1
  /\ mstate = "list"
  /\ merr = FALSE
  /\ accepted = {}

MatchNext ==
  \/ MatchEachPage
  \/ MatchFlavor
  \/ MatchPageEnd

MatchSpec == MatchInit /\ [][MatchNext]_vars

\* ================================================================== pipeline

\* The first enabled step at position i or later of the order; "end" if none.
NextFrom(i) ==
  LET later == {j \in DOMAIN TaskOrder : j >= i /\ TaskOrder[j] \in enabled}
  IN IF later = {} THEN "end"
     ELSE TaskOrder[CHOOSE j \in later : \A h \in later : j <= h]

Pos(s) == CHOOSE i \in DOMAIN TaskOrder : TaskOrder[i] = s

\* Node.Temper: a step that returns an error halts the pipeline and the
\* failure is forwarded; otherwise the next enabled step runs.
AfterStep(s, err) == IF err # "nil" THEN "forward" ELSE NextFrom(Pos(s) + 1)

\* Step s returns err.
Return(s, err) ==
  /\ result' = [result EXCEPT ![s] = err]
  /\ tpc' = AfterStep(s, err)

\* wait.Poll is called with the condition of call site s.
StartPoll(s) ==
  /\ site' = s
  /\ pstate' = "polling"
  /\ elapsed' = 0
  /\ pcalls' = 0
  /\ lastAns' = "none"
  /\ lastCheck' = FALSE
  /\ nConflict' = 0
  /\ presult' = "none"

\* wait.Poll has returned and no other poll follows at once.
EndPoll ==
  /\ site' = "none"
  /\ pstate' = "done"
  /\ elapsed' = 0
  /\ pcalls' = 0
  /\ lastAns' = "none"
  /\ lastCheck' = FALSE
  /\ nConflict' = 0
  /\ presult' = "none"

\* The error wait.Poll returned: nil on success, else the timeout or the
\* condition's error.
PollErr == IF presult = "success" THEN "nil" ELSE presult

\* The poll's first invocation of the condition settled it.
FirstTry == presult = "success" /\ pcalls = 1

\* recordsets.Create as the DNS API answers it: a record of that name exists
\* already (409), the record is created, or the call fails otherwise.
CreateAnswers(n) == IF n > 0 THEN {"conflict", "error"} ELSE {"ok", "error"}

\* Mutant of createRecordErr: the 409 is returned like any other error.
createRecordErrConflictFatal(ans) == IF ans = "ok" THEN "nil" ELSE ans

\* Client.CreateDNSRecordFor, from the answer of recordsets.Create on: a 409
\* returns nil ("record already exists"), anything else returns err as it is.
createRecordErr(ans) ==
  IF ans = "conflict" THEN "nil" ELSE IF ans = "ok" THEN "nil" ELSE ans

\* Client.CreateDNSRecordFor. The zone is looked up (a failed listing returns
\* its error, an empty one "wrong dns zone"), then the record is created. Node
\* names have the form <a>-<b>: the code indexes the second part unguarded.
CreateDNSRecordFor ==
  /\ tpc = "dns"
  /\ \E zl \in {"zoneError", "noZone", "ok"} :
       IF zl # "ok"
       THEN /\ dnsAns' = zl
            /\ Return("dns", IF zl = "zoneError" THEN "error" ELSE "wrong dns zone")
            /\ clean' = FALSE
            /\ UNCHANGED records
       ELSE \E ans \in CreateAnswers(records) :
              /\ dnsAns' = ans
              /\ records' = IF ans = "ok" THEN records + 1 ELSE records
              /\ Return("dns", createRecordErr(ans))
              /\ clean' = (clean /\ ans = "ok")
  /\ UNCHANGED <<powerAns, observed,
                 enabled, run, reported, rendered, res, patchResult, patched,
                 provResult, power>>
  /\ UNCHANGED <<callVars, poolVars, pollVars, matchVars>>

\* The flavor listings the compute API answers the matcher with.
TaskListings ==
  { <<>>,
    << Flavor("B", 64500, 510, 16) >>,
    ExampleCandidates,
    << Flavor("F", 64000, 500, 32), Flavor("B", 64500, 510, 16) >> }

\* The page sizes the listing is answered in: one flavor per page, or one page.
TaskPageSizes == {1, MaxFlavors}

\* Client.getRules, the error it returns: ParseFiles' error, or Execute's; the
\* error of json.Unmarshal is dropped.
getRulesErr(loaded, executed, parsed) ==
  IF ~loaded THEN "error" ELSE IF ~executed THEN "error" ELSE "nil"

\* Client.ApplyRules -> getRules, up to the template's call of
\* getMatchingFlavorFor: the template is loaded (or getRules returns the
\* error) and its execution starts a scan of the flavor listing.
ApplyRulesGetRules ==
  /\ tpc = "rules"
  /\ \E loaded \in BOOLEAN :
       IF getRulesErr(loaded, TRUE, TRUE) # "nil"
       THEN /\ rendered' = "loadError"
            /\ Return("rules", getRulesErr(loaded, TRUE, TRUE))
            /\ clean' = FALSE
            /\ UNCHANGED matchVars
       ELSE /\ rendered' = "rendering"
            /\ tpc' = "render"
            /\ UNCHANGED <<result, clean>>
            /\ \E l \in TaskListings, ps \in TaskPageSizes :
                 /\ measured' = ExampleInventory
                 /\ listing' = l
                 /\ pageSize' = ps
            /\ name' = ""
            /\ ram' = <<0, 1>>
            /\ disk' = <<0, 1>>
            /\ cpu' = <<0, 1>>
            /\ pageNo' = 0
            /\ idx' = 1
            /\ mstate' = "list"
            /\ merr' = FALSE
            /\ accepted' = {}
            /\ UNCHANGED ResourceClass
  /\ UNCHANGED <<powerAns, observed,
                 enabled, run, reported, dnsAns, records, res, patchResult, patched,
                 provResult, power>>
  /\ UNCHANGED <<callVars, poolVars, pollVars>>

\* Client.getRules from the end of the template's execution on, and
\* Client.ApplyRules up to the first port's poll: an execution error (the
\* matcher's, or another lookup's) is returned; the rendered document is
\* unmarshalled without a look at the error; the operations are collected, the
\* ports are listed (an error is returned) and the first port's update begins.
ApplyRulesRendered ==
  /\ tpc = "render"
  /\ mstate = "done"
  /\ \E lookupOK \in BOOLEAN, parsed \in BOOLEAN, listed \in BOOLEAN :
       LET executed == ~merr /\ lookupOK
           err == getRulesErr(TRUE, executed, parsed)
       IN /\ rendered' = IF ~executed THEN "renderError"
                         ELSE IF ~parsed THEN "parseError" ELSE "ok"
          /\ IF err # "nil"
             THEN /\ Return("rules", err)
                  /\ clean' = FALSE
                  /\ UNCHANGED <<res, pollVars>>
             ELSE IF ~listed
                  THEN /\ Return("rules", "error")
                       /\ clean' = FALSE
                       /\ UNCHANGED <<res, pollVars>>
                  ELSE /\ res' = 1
                       /\ tpc' = "patch"
                       /\ StartPoll("updatePorts")
                       /\ clean' = (clean /\ parsed)
                       /\ UNCHANGED result
  /\ UNCHANGED <<powerAns, observed,
                 enabled, run, reported, dnsAns, records, patchResult, patched,
                 provResult, power>>
  /\ UNCHANGED <<callVars, poolVars, matchVars>>

\* Mutant of updatePortsGoesOn: the loop goes on to the next port whatever
\* the poll returned.
updatePortsGoesOnAnyway(err) == TRUE

\* Client.updatePorts: `if err = wait.Poll(...); err != nil { return }`; and
\* Client.ApplyRules: `if err = c.updatePorts(...); err != nil { return }`.
updatePortsGoesOn(err) == err = "nil"

\* Client.updatePorts / Client.updateNode: the poll of the patch of resource
\* `res` has returned. After a port the loop goes on to the next port, after
\* the last port ApplyRules calls updateNode, whose result it returns.
ApplyRulesPatched ==
  /\ tpc = "patch"
  /\ pstate = "done"
  /\ patchResult' = [patchResult EXCEPT ![res] = presult]
  /\ patched' = IF presult = "success" THEN patched \cup {res} ELSE patched
  /\ clean' = (clean /\ FirstTry)
  /\ IF res # NodeRes /\ updatePortsGoesOn(PollErr)
     THEN /\ res' = res + 1
          /\ StartPoll(IF res + 1 = NodeRes THEN "updateNode" ELSE "updatePorts")
          /\ UNCHANGED <<tpc, result>>
     ELSE /\ Return("rules", PollErr)
          /\ EndPoll
          /\ UNCHANGED res
  /\ UNCHANGED <<powerAns, observed,
                 enabled, run, reported, dnsAns, records, rendered, provResult, power>>
  /\ UNCHANGED <<callVars, poolVars, matchVars>>

\* Mutant of provideNodeGoesOn: the next request is sent whatever the poll
\* returned.
provideNodeGoesOnAnyway(err) == TRUE

\* Client.ProvideNode: `if err = wait.Poll(...); err != nil { return }` after
\* the "manage" and after the "provide" request.
provideNodeGoesOn(err) == err = "nil"

\* The poll ProvideNode makes after the poll q.
NextProvPoll(q) == IF q = "manage" THEN "provide" ELSE "provisionState"

\* Client.ProvideNode, up to its first poll: the "manage" request.
ProvideNode ==
  /\ tpc = "provision"
  /\ tpc' = "manage"
  /\ StartPoll("manage")
  /\ UNCHANGED <<powerAns, observed,
                 enabled, run, result, reported, dnsAns, records, rendered, res,
                 patchResult, patched, provResult, power, clean>>
  /\ UNCHANGED <<callVars, poolVars, matchVars>>

\* Client.ProvideNode: one of its three polls has returned. An error is
\* returned; otherwise "provide" follows "manage", the poll of the provision
\* state follows "provide", and the result of that poll is returned.
ProvideNodePolled ==
  /\ tpc \in ProvPolls
  /\ pstate = "done"
  /\ provResult' = [provResult EXCEPT ![tpc] = presult]
  /\ clean' = (clean /\ FirstTry)
  /\ IF tpc # "provisionState" /\ provideNodeGoesOn(PollErr)
     THEN /\ tpc' = NextProvPoll(tpc)
          /\ StartPoll(NextProvPoll(tpc))
          /\ UNCHANGED result
     ELSE /\ Return("provision", PollErr)
          /\ EndPoll
  /\ observed' = IF tpc = "provisionState"
                 THEN [observed EXCEPT !["provisionState"] = lastAns]
                 ELSE observed
  /\ UNCHANGED <<powerAns, enabled, run, reported, dnsAns, records, rendered, res,
                 patchResult, patched, power>>
  /\ UNCHANGED <<callVars, poolVars, matchVars>>

\* Client.PowerNodeOn, up to its poll: the power-on request; a refusal (409 or
\* any other error) is returned as "cannot power on node".
PowerNodeOn ==
  /\ tpc = "power"
  /\ \E ans \in {"ok", "conflict", "error"} :
       /\ powerAns' = ans
       /\ IF ans # "ok"
          THEN /\ Return("power", "cannot power on node")
               /\ clean' = FALSE
               /\ UNCHANGED pollVars
          ELSE /\ tpc' = "powerState"
               /\ StartPoll("powerState")
               /\ UNCHANGED <<result, clean>>
  /\ UNCHANGED <<observed, enabled, run, reported, dnsAns, records, rendered, res,
                 patchResult, patched, provResult, power>>
  /\ UNCHANGED <<callVars, poolVars, matchVars>>

\* Client.PowerNodeOn: the poll of the power state has returned.
PowerNodeOnPolled ==
  /\ tpc = "powerState"
  /\ pstate = "done"
  /\ power' = IF lastAns \in {"on", "off"} THEN lastAns ELSE power
  /\ clean' = (clean /\ FirstTry)
  /\ Return("power", PollErr)
  /\ EndPoll
  /\ observed' = [observed EXCEPT !["powerState"] = lastAns]
  /\ UNCHANGED <<powerAns, enabled, run, reported, dnsAns, records, rendered, res,
                 patchResult, patched, provResult>>
  /\ UNCHANGED <<callVars, poolVars, matchVars>>

\* Client.WaitForNovaPropagation, up to its poll.
WaitForNovaPropagation ==
  /\ tpc = "nova"
  /\ tpc' = "novaPropagation"
  /\ StartPoll("novaPropagation")
  /\ UNCHANGED <<powerAns, observed,
                 enabled, run, result, reported, dnsAns, records,
                 rendered, res, patchResult, patched, provResult, power, clean>>
  /\ UNCHANGED <<callVars, poolVars, matchVars>>

\* Client.WaitForNovaPropagation: the poll of the hypervisor list has returned.
WaitForNovaPropagationPolled ==
  /\ tpc = "novaPropagation"
  /\ pstate = "done"
  /\ clean' = (clean /\ FirstTry)
  /\ Return("nova", PollErr)
  /\ EndPoll
  /\ observed' = [observed EXCEPT !["novaPropagation"] = lastAns]
  /\ UNCHANGED <<powerAns, enabled, run, reported, dnsAns, records, rendered, res,
                 patchResult, patched, provResult, power>>
  /\ UNCHANGED <<callVars, poolVars, matchVars>>

\* Node.Temper: the failure of the step is handed to the handler; the run ends.
TemperForward ==
  /\ tpc = "forward"
  /\ reported' = reported + 1
  /\ tpc' = "end"
  /\ UNCHANGED <<powerAns, observed,
                 enabled, run, result, dnsAns, records, rendered, res, patchResult,
                 patched, provResult, power, clean>>
  /\ UNCHANGED <<callVars, poolVars, pollVars, matchVars>>

\* Redfish.Start yields the node again on its next round: the pipeline runs
\* once more, on a fresh node object, against the remote as it is by then.
TemperAgain ==
  /\ tpc = "end"
  /\ run < MaxRuns
  /\ run' = run + 1
  /\ tpc' = NextFrom(1)
  /\ result' = [s \in TaskSteps |-> "none"]
  /\ dnsAns' = "none"
  /\ rendered' = "none"
  /\ res' = 1
  /\ patchResult' = [r \in Resources |-> "none"]
  /\ patched' = {}
  /\ provResult' = [q \in ProvPolls |-> "none"]
  /\ power' = "off"
  /\ powerAns' = "none"
  /\ observed' = [q \in ReadPolls |-> "none"]
  /\ clean' = TRUE
  /\ measured' = [ram |-> 0, disk |-> 0, cpu |-> 0]
  /\ listing' = <<>>
  /\ pageSize' = 1
  /\ ResourceClass' = ""
  /\ name' = ""
  /\ ram' = <<0, 1>>
  /\ disk' = <<0, 1>>
  /\ cpu' = <<0, 1>>
  /\ pageNo' = 0
  /\ idx' = 0
  /\ mstate' = "done"
  /\ merr' = FALSE
  /\ accepted' = {}
  /\ UNCHANGED <<enabled, reported, records>>
  /\ UNCHANGED <<callVars, poolVars, pollVars>>

TaskInit ==
  /\ PoolInit
  /\ PollIdle
  /\ MatchIdle
  /\ CallIdle
  /\ enabled \in SUBSET TaskSteps
  /\ run = 1
  /\ tpc = NextFrom(1)
  /\ result = [s \in TaskSteps |-> "none"]
  /\ reported = 0
  /\ dnsAns = "none"
  /\ records = 0
  /\ rendered = "none"
  /\ res = 1
  /\ patchResult = [r \in Resources |-> "none"]
  /\ patched = {}
  /\ provResult = [q \in ProvPolls |-> "none"]
  /\ power = "off"
  /\ powerAns = "none"
  /\ observed = [q \in ReadPolls |-> "none"]
  /\ clean = TRUE

TaskNext ==
  \/ CreateDNSRecordFor
  \/ ApplyRulesGetRules
  \/ ApplyRulesRendered
  \/ ApplyRulesPatched
  \/ ProvideNode
  \/ ProvideNodePolled
  \/ PowerNodeOn
  \/ PowerNodeOnPolled
  \/ WaitForNovaPropagation
  \/ WaitForNovaPropagationPolled
  \/ TemperForward
  \/ TemperAgain
  \/ PollTick
  \/ PollLastCheck
  \/ PollTimeout
  \/ MatchEachPage
  \/ MatchFlavor
  \/ MatchPageEnd

TaskSpec == TaskInit /\ [][TaskNext]_vars

\* ================================================================== lookups

\* images.ListDetail / services.List: what the compute API lists.
EntryListings == UNION { [1..n -> EntryNames] : n \in 0..MaxEntries }

LookupPageSizes == {1, MaxEntries}

\* The positions of listing l that page p holds.
PageEntries(l, p) ==
  { k \in 1..Len(l) : (p - 1) * lookupSize < k /\ k <= p * lookupSize }

\* `for _, i := range is { if i.Name == name {...} }`: the first entry of page
\* p whose name equals the name asked for; 0 if the page holds none.
MatchOn(l, p) ==
  LET ks == { k \in PageEntries(l, p) : l[k] = Wanted }
  IN IF ks = {} THEN 0 ELSE CHOOSE k \in ks : \A h \in ks : k <= h

\* getImageID, the page handler: extraction error -> (false, err); a match ->
\* id = i.ID, (false, nil); no match on the page -> (true, nil).
getImageIDHandler(l, p, extracted) ==
  IF ~extracted THEN [cont |-> FALSE, err |-> "imageError", found |-> 0]
  ELSE IF MatchOn(l, p) # 0
       THEN [cont |-> FALSE, err |-> "nil", found |-> MatchOn(l, p)]
       ELSE [cont |-> TRUE, err |-> "nil", found |-> 0]

\* getConductorZone, the page handler: extraction error -> (true, err); a
\* match -> id = sv.Zone, (true, nil); no match on the page -> (false, nil).
getConductorZoneHandler(l, p, extracted) ==
  IF ~extracted THEN [cont |-> TRUE, err |-> "zoneError", found |-> 0]
  ELSE IF MatchOn(l, p) # 0
       THEN [cont |-> TRUE, err |-> "nil", found |-> MatchOn(l, p)]
       ELSE [cont |-> FALSE, err |-> "nil", found |-> 0]

\* EachPage after the handler returned r on page p of l: the handler's error
\* ends the listing with that error; false, or no further page, ends it with
\* nil; otherwise the next page is asked for ("more").
EachPageNext(l, p, r) ==
  IF r.err # "nil" THEN r.err
  ELSE IF ~r.cont THEN "nil"
  ELSE IF p * lookupSize >= Len(l) THEN "nil" ELSE "more"

\* DeployTestInstance: `iID, err := c.getImageID(...)`, one page of the image
\* listing per step; what getImageID returns is assigned to iID and err.
getImageID ==
  /\ deployPc = "image"
  /\ IF Len(images) = 0
     THEN /\ imageErr' = "nil"
          /\ derr' = "nil"
          /\ deployPc' = "zone"
          /\ UNCHANGED <<lpage, iID, imagePages>>
     ELSE \E extracted \in BOOLEAN :
            LET r == getImageIDHandler(images, lpage + 1, extracted)
                nxt == EachPageNext(images, lpage + 1, r)
            IN /\ iID' = IF r.found # 0 THEN r.found ELSE iID
               /\ imagePages' = imagePages + 1
               /\ IF nxt = "more"
                  THEN /\ lpage' = lpage + 1
                       /\ UNCHANGED <<imageErr, derr, deployPc>>
                  ELSE /\ lpage' = 0
                       /\ imageErr' = nxt
                       /\ derr' = nxt
                       /\ deployPc' = "zone"
  /\ UNCHANGED <<images, services, lookupSize, zID, zonePages, zoneErr, createOpts>>
  /\ UNCHANGED <<poolVars, pollVars, matchVars, taskVars, validateVars>>

\* DeployTestInstance: `zID, err := c.getConductorZone(...)`, one page of the
\* service listing per step; what getConductorZone returns is assigned to zID
\* and to the same err.
getConductorZone ==
  /\ deployPc = "zone"
  /\ IF Len(services) = 0
     THEN /\ zoneErr' = "nil"
          /\ derr' = "nil"
          /\ deployPc' = "create"
          /\ UNCHANGED <<lpage, zID, zonePages>>
     ELSE \E extracted \in BOOLEAN :
            LET r == getConductorZoneHandler(services, lpage + 1, extracted)
                nxt == EachPageNext(services, lpage + 1, r)
            IN /\ zID' = IF r.found # 0 THEN r.found ELSE zID
               /\ zonePages' = zonePages + 1
               /\ IF nxt = "more"
                  THEN /\ lpage' = lpage + 1
                       /\ UNCHANGED <<zoneErr, derr, deployPc>>
                  ELSE /\ lpage' = 0
                       /\ zoneErr' = nxt
                       /\ derr' = nxt
                       /\ deployPc' = "create"
  /\ UNCHANGED <<images, services, lookupSize, iID, imagePages, imageErr, createOpts>>
  /\ UNCHANGED <<poolVars, pollVars, matchVars, taskVars, validateVars>>

\* DeployTestInstance from `if err != nil { return }` on: the creation request
\* with ImageRef iID and the zone zID is sent, and the step returns what the
\* creation, the wait for ACTIVE or the ping returned.
DeployTestInstanceCreate ==
  /\ deployPc = "create"
  /\ IF derr # "nil"
     THEN UNCHANGED <<derr, createOpts>>
     ELSE /\ createOpts' = Append(createOpts, <<iID, zID>>)
          /\ \E out \in {"nil", "createError"} : derr' = out
  /\ deployPc' = "returned"
  /\ UNCHANGED <<images, services, lookupSize, lpage, iID, zID, imagePages, zonePages,
                 imageErr, zoneErr>>
  /\ UNCHANGED <<poolVars, pollVars, matchVars, taskVars, validateVars>>

DeployInit ==
  /\ PoolInit
  /\ PollIdle
  /\ MatchIdle
  /\ TaskIdle
  /\ ValidateIdle
  /\ images \in EntryListings
  /\ services \in EntryListings
  /\ lookupSize \in LookupPageSizes
  /\ deployPc = "image"
  /\ lpage = 0
  /\ iID = 0
  /\ zID = 0
  /\ imagePages = 0
  /\ zonePages = 0
  /\ imageErr = "none"
  /\ zoneErr = "none"
  /\ derr = "none"
  /\ createOpts = <<>>

DeployNext ==
  \/ getImageID
  \/ getConductorZone
  \/ DeployTestInstanceCreate

DeploySpec == DeployInit /\ [][DeployNext]_vars

\* ================================================================== validate

\* Texts are sequences of characters. What follows the sub-result's name in a
\* reason the validate API gives: nothing, or text with a percent sign in it.
ReasonTails == {<<>>, <<"%">>, <<"%", "%">>, <<"%", "s">>}

\* What the API can hold for sub-result k: positive without a reason, or
\* negative with a reason that starts with the sub-result's name.
SubResultValues(k) ==
  {[Result |-> TRUE, Reason |-> <<>>]} \cup
  { [Result |-> FALSE, Reason |-> <<k>> \o t] : t \in ReasonTails }

Validations ==
  { f \in [SubResultNames -> UNION { SubResultValues(k) : k \in SubResultNames }] :
      \A k \in SubResultNames : f[k] \in SubResultValues(k) }

\* fmt.Sprintf(format) without operands: text is copied; "%%" gives "%"; a
\* percent sign before a verb c gives "%!c(MISSING)"; a percent sign at the end
\* gives "%!(NOVERB)".
RECURSIVE Sprintf(_)
Sprintf(format) ==
  IF format = <<>> THEN <<>>
  ELSE IF Head(format) # "%" THEN <<Head(format)>> \o Sprintf(Tail(format))
  ELSE IF Len(format) = 1 THEN <<"%!(NOVERB)">>
  ELSE IF format[2] = "%" THEN <<"%">> \o Sprintf(Tail(Tail(format)))
  ELSE <<"%!", format[2], "(MISSING)">> \o Sprintf(Tail(Tail(format)))

\* fmt.Errorf(format): an error whose message is the formatted text.
Errorf(format) == [isErr |-> TRUE, msg |-> Sprintf(format)]

\* ValidateNode after the call returned v without error: the four checks.
validateChecks(v) ==
  IF ~v.Inspect.Result THEN Errorf(v.Inspect.Reason)
  ELSE IF ~v.Power.Result THEN Errorf(v.Power.Reason)
  ELSE IF ~v.Management.Result THEN Errorf(v.Management.Reason)
  ELSE IF ~v.Network.Result THEN Errorf(v.Network.Reason)
  ELSE NilErr

\* Client.ValidateNode: the validate call fails and its error is returned, or
\* it answers and the four sub-results are checked in order.
ValidateNode ==
  /\ vpc = "call"
  /\ \E ans \in {"ok", "error"} :
       /\ vans' = ans
       /\ verr' = IF ans = "error"
                  THEN [isErr |-> TRUE, msg |-> <<"validate call failed">>]
                  ELSE validateChecks(validation)
  /\ vpc' = "returned"
  /\ UNCHANGED validation
  /\ UNCHANGED <<poolVars, pollVars, matchVars, taskVars, deployVars>>

ValidateInit ==
  /\ PoolInit
  /\ PollIdle
  /\ MatchIdle
  /\ TaskIdle
  /\ DeployIdle
  /\ validation \in Validations
  /\ vans = "none"
  /\ vpc = "call"
  /\ verr = NilErr

ValidateNext == ValidateNode

ValidateSpec == ValidateInit /\ [][ValidateNext]_vars

\* ================================================================== properties

\* The job has been handed to the dispatcher: it waits there or was delivered.
IsHanded(j) ==
  \/ \E i \in DOMAIN pending : pending[i] = j
  \/ dJob = j
  \/ runs[j] > 0

\* Jobs whose pipeline a worker is running (or whose failure it is forwarding).
InFlight == { j \in Jobs : \E w \in Workers : curJob[w] = j }

\* The worker pool's safety: at most NumWorkers jobs in flight, a slot the
\* dispatcher holds belongs to a worker waiting on it (or one that has quit),
\* and no job is run twice.
PoolSafety ==
  /\ Cardinality(InFlight) <= NumWorkers
  /\ \A w \in Workers : (curJob[w] # 0) <=> (wpc[w] \in {"run", "forward"})
  /\ dpc = "send" => wpc[dSlot] \in {"select", "exited"}
  /\ \A j \in Jobs : runs[j] <= 1

\* C1: with W workers and N > W jobs handed to the dispatcher, at most W jobs
\* are in flight in every state, each worker runs one job at a time, a job is
\* delivered only to a worker waiting on its slot, no job is run twice, and
\* every job handed over is eventually run (unless the process is shut down).
C1_AllJobsRunOnce ==
  /\ []PoolSafety
  /\ \A j \in Jobs : [](IsHanded(j) => <>(runs[j] = 1 \/ ctxDone))

\* C2: when a step of a job's pipeline fails, no later step of that pipeline is
\* executed, the job is not run again, and the failure is received by the
\* handler exactly once (unless the process is shut down first).
C2_FailFastHandledOnce ==
  /\ [](\A j \in Jobs : failedAt[j] # 0 => lastStep[j] = failedAt[j] /\ runs[j] = 1)
  /\ [](\A j \in Jobs : received[j] <= 1)
  /\ \A j \in Jobs : [](failedAt[j] # 0 => <>(received[j] = 1 \/ ctxDone))

\* C3: the handler is a long-lived consumer: it stops receiving failures only
\* when the cancellation signal has fired.
C3_HandlerStopsOnlyOnCancel == hpc = "exited" => ctxDone

\* C4: a worker that has a failure to forward is never blocked on it forever:
\* it gets back to the top of its loop (unless the process is shut down).
C4_WorkerSurvivesFailure ==
  \A w \in Workers :
    [](wpc[w] = "forward" => <>(wpc[w] \in {"announce", "select"} \/ ctxDone))

\* C8: in every state at most one worker runs a pipeline for a given node.
C8_SingleOwner ==
  \A w1, w2 \in Workers :
    (w1 # w2 /\ curJob[w1] # 0 /\ curJob[w2] # 0)
      => NodeOf(curJob[w1]) # NodeOf(curJob[w2])

\* C9: once the quit signal is raised, a worker that has finished a job does
\* not publish its slot again, and an idle worker takes no job.
C9_QuitStopsWorker ==
  [][ Quit => \A w \in Workers :
                /\ ~(served[w] /\ wpc[w] = "announce" /\ wpc'[w] = "select")
                /\ ~(wpc[w] = "select" /\ wpc'[w] = "run") ]_vars

\* The call sites whose condition retries on 409: port update, "manage" and
\* "provide".
ConflictSites == {"updatePorts", "manage", "provide"}

\* C5: at a port update and at the "manage" and "provide" requests, a 409
\* answer never ends the poll before its timeout, and an accepted request that
\* follows only 409 answers ends the poll in success.
C5_ConflictAbsorbed ==
  site \in ConflictSites =>
    /\ (lastAns = "conflict" /\ pstate = "done") =>
         (presult = "timeout" /\ elapsed + Interval(site) > Timeout(site))
    /\ (lastAns = "ok" /\ nConflict = pcalls - 1) =>
         (pstate = "done" /\ presult = "success")

\* C5 happens: a port update is accepted after two or more 409 answers.
C5_Witness ==
  /\ site = "updatePorts"
  /\ pstate = "done"
  /\ presult = "success"
  /\ nConflict >= 2
  /\ pcalls = nConflict + 1

\* The answers at which a reading condition is neither settled nor failed.
Unsettled(s) ==
  CASE s = "powerState" -> {"off"}
    [] s = "novaPropagation" -> {"absent", "nodisk", "nomemory"}
    [] OTHER -> {}

\* The answer at which a reading condition is settled.
Settled(s) ==
  CASE s = "powerState" -> {"on"}
    [] s = "novaPropagation" -> {"ready"}
    [] OTHER -> {}

ReadSites == {"powerState", "novaPropagation"}

C6_Ended ==
  /\ Interval(site) < Timeout(site)
  /\ (pstate = "done" /\ presult = "timeout") =>
       pcalls >= Timeout(site) \div Interval(site)
  /\ (site \in ReadSites /\ pstate = "done") =>
       /\ lastAns \in Unsettled(site) =>
            (presult = "timeout" /\ pcalls >= Timeout(site) \div Interval(site))
       /\ lastAns \in Settled(site) => presult = "success"
       /\ lastAns = "error" => presult = "error"

C6_NoCallAfterEnd ==
  pcalls' # pcalls =>
    /\ pstate = "polling"
    /\ site \in ReadSites => (pcalls = 0 \/ lastAns \in Unsettled(site))

\* C6: a poll (interval I < timeout T) that ends with the timeout error has
\* invoked its condition at least T div I times; at the power-state and the
\* fleet-propagation polls an unsettled last answer ends in the timeout error,
\* a settled one in success, a failed read in that error; the condition is not
\* invoked again after a settled or failed invocation; every poll ends.
C6_PollBounds ==
  /\ []C6_Ended
  /\ [][C6_NoCallAfterEnd]_vars
  /\ <>(pstate = "done")

\* C6 happens: the power-state poll times out after its six or more checks.
C6_Witness ==
  /\ site = "powerState"
  /\ pstate = "done"
  /\ presult = "timeout"
  /\ lastAns = "off"
  /\ pcalls >= 6

\* The poll-wrapped remote updates: port update, node update, state change.
UpdateSites == {"updatePorts", "updateNode", "manage", "provide"}

\* C7: at every poll-wrapped remote update only a 409 is retried: a 404 or
\* any other error ends the poll at that invocation and is the error returned.
C7_OnlyConflictRetried ==
  (site \in UpdateSites /\ lastAns \in {"notfound", "error"}) =>
    (pstate = "done" /\ presult = lastAns)

\* The flavors the scan has gone through.
Visited == SubSeq(listing, 1, idx - 1)

\* Two fractions are the same number.
SameDelta(d, t) == d[1] * t[2] = t[1] * d[2]

\* The two flavors are equally far from the measured inventory.
EqualDeltas(f, g) ==
  /\ SameDelta(calcDelta(f.ram, measured.ram), calcDelta(g.ram, measured.ram))
  /\ SameDelta(calcDelta(f.disk, measured.disk), calcDelta(g.disk, measured.disk))
  /\ SameDelta(calcDelta(f.cpu, measured.cpu), calcDelta(g.cpu, measured.cpu))

MaxOf(S) == CHOOSE x \in S : \A y \in S : y <= x

C11_AllPagesScanned ==
  (mstate = "done" /\ ~merr) => idx = Len(listing) + 1

\* The delta is within the threshold (d <= t).
AtMost(d, t) == d[1] * t[2] <= t[1] * d[2]

\* The flavor is within the initial thresholds: RAM 10%, disk 20%, CPU 10%.
WithinThresholds(f) ==
  /\ AtMost(calcDelta(f.ram, measured.ram), RamThreshold)
  /\ AtMost(calcDelta(f.disk, measured.disk), DiskThreshold)
  /\ AtMost(calcDelta(f.cpu, measured.cpu), CpuThreshold)

\* C16: when a scan has ended and a flavor it visited is within the initial
\* thresholds, the result is not empty and is the node's resource class,
\* whatever flavors were visited before it.
C16_AcceptableAccepted ==
  (mstate = "done" /\ ~merr) =>
    ((\E i \in 1..(idx - 1) : WithinThresholds(listing[i])) =>
       (name # "" /\ ResourceClass = name))

\* C17: a slot whose worker has quit and closed it is neither in the
\* availability queue nor held by the dispatcher, and no send on a closed slot
\* has crashed the process.
C17_NoSendOnClosedSlot ==
  /\ ~panicked
  /\ \A w \in Workers :
       closed[w] =>
         /\ \A i \in DOMAIN Queue : Queue[i] # w
         /\ ~(dpc = "send" /\ dSlot = w)

\* C13: once the teardown step of a node has returned no error, the node's
\* workload identifier is empty and the handler issues no teardown for it.
C13_ClearedAfterTeardown ==
  \A j \in Jobs : tornDown[j] => (InstanceUUID[j] = "" /\ deletes[j] = 0)

\* The job's pipeline has failed with its test workload created and not torn
\* down.
Leaked(j) == failedAt[j] # 0 /\ InstanceUUID[j] # "" /\ ~tornDown[j]

\* C15: the handler issues a teardown only for a failure whose node has a
\* workload identifier, at most one per failure received, and every pipeline
\* that fails with its workload created and not torn down eventually gets one
\* (unless the process is shut down).
C15_NoLeakedWorkload ==
  /\ [](\A j \in Jobs : deletes[j] <= received[j])
  /\ [](\A j \in Jobs : deletes[j] > 0 => InstanceUUID[j] # "")
  /\ \A j \in Jobs : [](Leaked(j) => <>(deletes[j] > 0 \/ ctxDone))

\* C12: the zone never holds two records of the node's name; a created record
\* and an "already exists" (409) answer both make CreateDNSRecordFor return no
\* error, with exactly one record in the zone; any other answer, and a failed
\* or empty zone lookup, make it return an error.
C12_DnsIdempotent ==
  /\ records <= 1
  /\ dnsAns = "ok" => (result["dns"] = "nil" /\ records = 1)
  /\ dnsAns = "conflict" => (result["dns"] = "nil" /\ records = 1)
  /\ dnsAns \in {"error", "zoneError", "noZone"} =>
       result["dns"] \notin {"nil", "none"}

\* C12 happens: the node's second run finds its record and ends without error.
C12_Witness ==
  /\ run = 2
  /\ tpc = "end"
  /\ dnsAns = "conflict"
  /\ result["dns"] = "nil"
  /\ records = 1
  /\ reported = 0

\* C14: a first run with the steps {DNS, rules, power}, no DNS record before,
\* the example's inventory and candidates [A, B], and every call accepted on
\* the first try, ends with the record created, the resource class B, the
\* power state "on" and no failure handed to the handler.
C14_EndToEnd ==
  ( /\ tpc = "end"
    /\ run = 1
    /\ enabled = {"dns", "rules", "power"}
    /\ clean
    /\ measured = ExampleInventory
    /\ listing = ExampleCandidates )
  => ( /\ records = 1
       /\ ResourceClass = "B"
       /\ power = "on"
       /\ reported = 0 )

\* The resources a patch request was sent to in this run.
PatchRequested ==
  {r \in Resources : patchResult[r] # "none"}
    \cup (IF tpc = "patch" /\ pcalls > 0 THEN {res} ELSE {})

\* C18: when the rendering of the rules fails, or the rendered document does
\* not parse, ApplyRules returns an error and no patch request is sent.
C18_RenderFailureIsStepFailure ==
  rendered \in {"renderError", "parseError"} =>
    /\ tpc \in {"forward", "end"}
    /\ result["rules"] \notin {"nil", "none"}
    /\ PatchRequested = {}

\* C19: the resources are patched in order (ports, then the node), each only
\* after the one before was patched; when the update of port k ends in an
\* error or the timeout, ApplyRules returns it, the ports before k are still
\* patched, and nothing after k has received a patch request.
C19_NoRollbackNoFurtherPatch ==
  /\ \A r \in PatchRequested : \A i \in Resources : i < r => i \in patched
  /\ \A k \in 1..NumPorts :
       patchResult[k] \notin {"none", "success"} =>
         /\ tpc \in {"forward", "end"}
         /\ result["rules"] = patchResult[k]
         /\ \A i \in Resources : i < k => i \in patched
         /\ \A i \in Resources : i > k => i \notin PatchRequested

\* C19 happens: the second port's update timed out after the first was patched.
C19_Witness ==
  /\ tpc = "end"
  /\ patchResult[1] = "success"
  /\ patchResult[2] = "timeout"
  /\ patched = {1}
  /\ result["rules"] = "timeout"
  /\ reported >= 1

\* C20: "provide" is requested only after "manage" was accepted, the poll of
\* the provision state starts only after "provide" was accepted, and when
\* "manage" ends in an error or the timeout no "provide" request is sent and
\* ProvideNode returns that error.
C20_ProvisioningOrder ==
  /\ site \in ProvPolls => tpc = site
  /\ (tpc = "provide" \/ provResult["provide"] # "none") =>
       provResult["manage"] = "success"
  /\ (tpc = "provisionState" \/ provResult["provisionState"] # "none") =>
       provResult["provide"] = "success"
  /\ provResult["manage"] \notin {"none", "success"} =>
       /\ tpc \in {"forward", "end"}
       /\ provResult["provide"] = "none"
       /\ result["provision"] = provResult["manage"]

\* C20 happens: "manage" timed out and the step returned the timeout.
C20_Witness ==
  /\ tpc = "end"
  /\ provResult["manage"] = "timeout"
  /\ provResult["provide"] = "none"
  /\ result["provision"] = "timeout"

\* The step whose return value is the result of the reading poll q.
StepOf(q) ==
  CASE q = "provisionState" -> "provision"
    [] q = "powerState" -> "power"
    [] q = "novaPropagation" -> "nova"

\* The answers of a read at which the remote has not converged.
NotConverged(q) ==
  CASE q = "provisionState" -> {"manageable"}
    [] q = "powerState" -> {"off"}
    [] q = "novaPropagation" -> {"absent", "nodisk", "nomemory"}

\* C21: a convergence step reports success only on observed convergence.
\* ProvideNode returns nil only if the last read of the provision state was
\* "available"; PowerNodeOn returns nil only if the power-on request was
\* accepted and the last read of the power state was "on";
\* WaitForNovaPropagation returns nil only if the last listing held the node
\* with disk and memory above zero; and a step whose poll ended on a read
\* that had not converged returns the timeout error.
C21_SuccessOnlyOnConvergence ==
  /\ result["provision"] = "nil" => observed["provisionState"] = "available"
  /\ result["power"] = "nil" =>
       (powerAns = "ok" /\ observed["powerState"] = "on")
  /\ result["nova"] = "nil" => observed["novaPropagation"] = "ready"
  /\ \A q \in ReadPolls :
       observed[q] \in NotConverged(q) => result[StepOf(q)] = "timeout"

\* The node was provided and powered on after reads of "available" and "on",
\* and the fleet inventory never showed it with memory: that step timed out.
C21_Witness ==
  /\ result["provision"] = "nil"
  /\ observed["provisionState"] = "available"
  /\ result["power"] = "nil"
  /\ powerAns = "ok"
  /\ observed["powerState"] = "on"
  /\ result["nova"] = "timeout"
  /\ observed["novaPropagation"] = "nomemory"

\* The entries of listing l whose name equals the name asked for.
Matches(l) == { k \in 1..Len(l) : l[k] = Wanted }

\* The page that holds position k.
PageNo(k) == ((k - 1) \div lookupSize) + 1

\* A lookup over l that returned id after handing `pages` pages to its
\* handler did what a paged name lookup has to do.
LookupRight(l, id, pages) ==
  IF Matches(l) = {}
  THEN id = 0
  ELSE id \in Matches(l) /\ pages = PageNo(id)

\* C22: DeployTestInstance sends the creation request only if both the image
\* id and the zone were resolved without error; when resolving the image
\* failed, it returns that error and sends no creation request, whatever the
\* zone lookup returned.
C22_CreateOnlyIfResolved ==
  /\ createOpts # <<>> => (imageErr = "nil" /\ zoneErr = "nil")
  /\ (deployPc = "returned" /\ imageErr = "imageError") =>
       (derr = "imageError" /\ createOpts = <<>>)

\* C23: a paged name lookup that returns no error returns the identifier of
\* an entry whose name equals the name asked for whenever the listing holds
\* one on any page, has asked for no page beyond that entry's, and returns the
\* empty identifier only when no page holds a match.
C23_PagedLookups ==
  /\ imageErr = "nil" => LookupRight(images, iID, imagePages)
  /\ zoneErr = "nil" => LookupRight(services, zID, zonePages)

\* The positions, in the order of the checks, of the negative sub-results.
Negative == { i \in DOMAIN SubResults : ~validation[SubResults[i]].Result }

FirstNegative == CHOOSE i \in Negative : \A h \in Negative : i <= h

\* C24: when the validate call answered, ValidateNode returns an error exactly
\* when one of the four sub-results is negative, and the error's message is
\* then the reason of the first negative one in the order inspection, power,
\* management, network; with four positive sub-results it returns nil.
C24_FirstNegativeReason ==
  (vpc = "returned" /\ vans = "ok") =>
    /\ verr.isErr <=> Negative # {}
    /\ Negative # {} => verr.msg = validation[SubResults[FirstNegative]].Reason

====
